---- MODULE Spec2Model ----
(***************************************************************************)
(* AnnotationManager of mbgl (src/mbgl/map/annotation.cpp): the table of   *)
(* point annotations, the pyramid of annotation tiles they are fanned out  *)
(* into, and the public operations on both, each under the manager's mutex.*)
(*                                                                         *)
(* Geographic coordinates are taken from a grid: a longitude is an integer *)
(* number of steps of 360/G degrees, a latitude is the integer n of the    *)
(* parallel whose Mercator ordinate is 0.5 - n/G.  projectPoint is then    *)
(* exact on the grid: a projected coordinate is a numerator over G.        *)
(***************************************************************************)
EXTENDS Integers, Sequences, FiniteSets, TLC

VARIABLES
    nextID_,                       \* uint32_t nextID_: the ID counter
    defaultPointAnnotationSymbol,  \* the fallback sprite name
    annotations,                   \* ID -> Annotation
    annotationTiles,               \* Tile::ID -> (AnnotationIDs, LiveTile)
    maxZoom,                       \* what Map::getMaxZoom() returns
    allocated,                     \* history: every value nextID() returned, in order
    last,                          \* history: the last completed call, its inputs and results
    mtx,                           \* std::mutex mtx: its owner, or Free
    pc,                            \* per thread: position in its call
    call,                          \* per thread: the call in progress and its locals
    snap                           \* per thread: the tables when it got the lock

vars == <<nextID_, defaultPointAnnotationSymbol, annotations, annotationTiles,
          maxZoom, allocated, last, mtx, pc, call, snap>>

mgr == <<nextID_, defaultPointAnnotationSymbol, annotations, annotationTiles>>
conc == <<mtx, pc, call, snap>>

(***************************************************************************)
(* Bounds of the model.                                                    *)
(***************************************************************************)
MaxID == 2          \* IDs allocated over a run
MaxZoomBound == 2   \* largest value Map::getMaxZoom() takes
H == 4              \* grid steps per half axis

G == 2 * H

extent == 4096

LatLng(lat, lon) == [latitude |-> lat, longitude |-> lon]
LatLngs == {LatLng(0, 0), LatLng(2, -3)}
Corners == {LatLng(-3, -4), LatLng(-1, -1), LatLng(-1, 1), LatLng(1, 1), LatLng(3, 3)}
Threads == {"t1", "t2"}
NoID == MaxID       \* an ID the counter never reaches

Free == "free"
None == "none"
NoCall == [op |-> None]
NoSnap == [at |-> None]

Pow2(n) == 2 ^ n

EmptyMap == [k \in {} |-> None]

Range(s) == {s[i] : i \in DOMAIN s}

Min(a, b) == IF a < b THEN a ELSE b
Max(a, b) == IF a > b THEN a ELSE b

(***************************************************************************)
(* LatLngBounds: a default box is empty (sw above ne); extend takes the    *)
(* envelope.                                                               *)
(***************************************************************************)
EmptyBounds == [sw |-> [latitude |-> H, longitude |-> H],
                ne |-> [latitude |-> -H, longitude |-> -H]]

extend(b, point) ==
    [sw |-> [latitude |-> Min(b.sw.latitude, point.latitude),
             longitude |-> Min(b.sw.longitude, point.longitude)],
     ne |-> [latitude |-> Max(b.ne.latitude, point.latitude),
             longitude |-> Max(b.ne.longitude, point.longitude)]]

(***************************************************************************)
(* Annotation: the constructor computes the bounds of a Point annotation   *)
(* as the degenerate box around its point; tileFeatures starts empty.      *)
(***************************************************************************)
getPoint(annotation) == annotation.geometry[1][1]

Annotation(geometry_) ==
    [geometry |-> geometry_,
     tileFeatures |-> EmptyMap,
     bounds |-> [sw |-> geometry_[1][1], ne |-> geometry_[1][1]]]

(***************************************************************************)
(* projectPoint: x = longitude/360 + 0.5, y = 0.5 - mercator(latitude),    *)
(* as numerators over G.  y grows to the south.                            *)
(***************************************************************************)
projectPoint(point) == [x |-> point.longitude + H, y |-> H - point.latitude]

\* uint32_t x = p.x * z2: the conversion truncates
TileCoord(num, z2) == (num * z2) \div G

\* extent * (p.x * z2 - x), truncated to the Coordinate's integer
LocalCoord(num, z2, t) == (extent * (num * z2 - t * G)) \div G

(***************************************************************************)
(* The order in which a loop over annotationTiles visits the tiles: by z,  *)
(* then x, then y.  What a loop does to one tile does not depend on the    *)
(* other tiles, so the order shows only in the order of the tiles and IDs  *)
(* a call returns.                                                         *)
(***************************************************************************)
TileLess(t, u) ==
    \/ t[1] < u[1]
    \/ t[1] = u[1] /\ t[2] < u[2]
    \/ t[1] = u[1] /\ t[2] = u[2] /\ t[3] < u[3]

RECURSIVE TileOrder(_)
TileOrder(S) ==
    IF S = {} THEN <<>>
    ELSE LET m == CHOOSE t \in S : \A u \in S \ {t} : TileLess(t, u)
         IN  <<m>> \o TileOrder(S \ {m})

(***************************************************************************)
(* LiveTileLayer: the features of a tile's points layer, in insertion      *)
(* order.  A feature is identified by the annotation it was made for.      *)
(***************************************************************************)
addFeature(layer, feature) == Append(layer, feature)

removeFeature(layer, feature) ==
    IF \E k \in DOMAIN layer : layer[k] = feature
    THEN LET k == CHOOSE j \in DOMAIN layer :
                      layer[j] = feature /\ \A i \in 1..(j - 1) : layer[i] # feature
         IN  SubSeq(layer, 1, k - 1) \o SubSeq(layer, k + 1, Len(layer))
    ELSE layer

\* nextID without the increment
nextIDSame(counter) == [id |-> counter, counter |-> counter]

(***************************************************************************)
(* nextID: return nextID_++                                                *)
(***************************************************************************)
nextID(counter) == [id |-> counter, counter |-> counter + 1]

\* the pass that creates a new tile without putting the feature in its layer
AddLevelNoLayer(st, annotationID, p, sprite, z, z2, x, y) ==
    LET tileID == <<z, x, y>>
        coordinate == <<LocalCoord(p.x, z2, x), LocalCoord(p.y, z2, y)>>
        feature == [owner |-> annotationID, geometry |-> coordinate, sprite |-> sprite]
        tiles == st.annotationTiles
        annos == st.annotations
        tf == annos[annotationID].tileFeatures
    IN  [st EXCEPT
         !.affectedTiles = Append(@, tileID),
         !.annotationTiles =
            IF tileID \in DOMAIN tiles
            THEN [tiles EXCEPT ![tileID] =
                     [first |-> Append(@.first, annotationID),
                      second |-> addFeature(@.second, feature)]]
            ELSE (tileID :> [first |-> <<annotationID>>, second |-> <<>>]) @@ tiles,
         !.annotations =
            [annos EXCEPT ![annotationID].tileFeatures =
                IF tileID \in DOMAIN tf THEN tf ELSE (tileID :> <<feature>>) @@ tf]]

(***************************************************************************)
(* One pass of the zoom loop of addPointAnnotations for the annotation     *)
(* annotationID at projected point p: the tile (z, x, y) gets the feature  *)
(* and the annotation's ID, the annotation gets the feature under the tile.*)
(* st holds the two tables and the affectedTiles of the call.              *)
(***************************************************************************)
AddLevel(st, annotationID, p, sprite, z, z2, x, y) ==
    LET tileID == <<z, x, y>>
        coordinate == <<LocalCoord(p.x, z2, x), LocalCoord(p.y, z2, y)>>
        feature == [owner |-> annotationID, geometry |-> coordinate, sprite |-> sprite]
        tiles == st.annotationTiles
        annos == st.annotations
        tf == annos[annotationID].tileFeatures
    IN  [st EXCEPT
         !.affectedTiles = Append(@, tileID),
         !.annotationTiles =
            IF tileID \in DOMAIN tiles
            THEN [tiles EXCEPT ![tileID] =
                     [first |-> Append(@.first, annotationID),
                      second |-> addFeature(@.second, feature)]]
            ELSE (tileID :> [first |-> <<annotationID>>,
                             second |-> addFeature(<<>>, feature)]) @@ tiles,
         !.annotations =
            [annos EXCEPT ![annotationID].tileFeatures =
                IF tileID \in DOMAIN tf THEN tf ELSE (tileID :> <<feature>>) @@ tf]]

\* the zoom loop with y left as it is from one level to the next
RECURSIVE FanOutKeepY(_, _, _, _, _, _, _, _)
FanOutKeepY(st, annotationID, p, sprite, z, z2, x, y) ==
    IF z < 0 THEN st
    ELSE FanOutKeepY(AddLevel(st, annotationID, p, sprite, z, z2, x, y),
                     annotationID, p, sprite, z - 1, z2 \div 2, x \div 2, y)

\* the zoom loop that ends above zoom 0
RECURSIVE FanOutAboveZero(_, _, _, _, _, _, _, _)
FanOutAboveZero(st, annotationID, p, sprite, z, z2, x, y) ==
    IF z < 1 THEN st
    ELSE FanOutAboveZero(AddLevel(st, annotationID, p, sprite, z, z2, x, y),
                         annotationID, p, sprite, z - 1, z2 \div 2, x \div 2, y \div 2)

RECURSIVE FanOut(_, _, _, _, _, _, _, _)
FanOut(st, annotationID, p, sprite, z, z2, x, y) ==
    IF z < 0 THEN st
    ELSE FanOut(AddLevel(st, annotationID, p, sprite, z, z2, x, y),
                annotationID, p, sprite, z - 1, z2 \div 2, x \div 2, y \div 2)

(***************************************************************************)
(* The part of the loop over points before the zoom loop: allocate the ID, *)
(* emplace the Annotation.                                                 *)
(***************************************************************************)
EmplaceAnnotation(annos, annotationID, point) ==
    IF annotationID \in DOMAIN annos THEN annos
    ELSE (annotationID :> Annotation(<<<<point>>>>)) @@ annos

\* the default put before the symbol of the point
SpriteDefaultFirst(symbol, default) == IF Len(default) > 0 THEN default ELSE symbol

Sprite(symbol, default) == IF Len(symbol) > 0 THEN symbol ELSE default

\* AnnotationIDs annotationIDs(points.size()): that many value-initialised IDs
InitialIDs(n) == [i \in 1..n |-> 0]

RECURSIVE AddPoints(_, _, _, _, _, _, _)
AddPoints(acc, points, symbols, i, zoom, default, counter) ==
    IF i > Len(points) THEN [acc EXCEPT !.nextID_ = counter]
    ELSE LET n == nextID(counter)
             annotationID == n.id
             st0 == [acc EXCEPT !.annotations =
                        EmplaceAnnotation(@, annotationID, points[i])]
             z2 == Pow2(zoom)
             p == projectPoint(points[i])
             x == TileCoord(p.x, z2)
             y == TileCoord(p.y, z2)
             st1 == FanOut(st0, annotationID, p, Sprite(symbols[i], default),
                           zoom, z2, x, y)
         IN  AddPoints([st1 EXCEPT !.annotationIDs = Append(@, annotationID),
                                   !.allocated = Append(@, annotationID)],
                       points, symbols, i + 1, zoom, default, n.counter)

\* the whole of addPointAnnotations on the tables annos, tiles
addPointAnnotations(annos, tiles, counter, default, zoom, points, symbols) ==
    AddPoints([annotations |-> annos, annotationTiles |-> tiles,
               affectedTiles |-> <<>>, annotationIDs |-> InitialIDs(Len(points)),
               allocated |-> <<>>, nextID_ |-> counter],
              points, symbols, 1, zoom, default, counter)

(***************************************************************************)
(* removeAnnotations.  One pass of the loop over annotationTiles for the   *)
(* live annotation annotationID: strike the ID from the tile's list and,   *)
(* when the annotation has a feature under the tile, remove it from the    *)
(* layer and report the tile.                                              *)
(***************************************************************************)
erase_if(ids, annotationID) == SelectSeq(ids, LAMBDA a : a # annotationID)

\* the pass that reports every tile it visits
RemoveFromTileAll(st, annotationID, tileID) ==
    LET tf == st.annotations[annotationID].tileFeatures
        struck == [st.annotationTiles EXCEPT ![tileID].first = erase_if(@, annotationID)]
    IN  [st EXCEPT
         !.annotationTiles =
             IF tileID \in DOMAIN tf
             THEN [struck EXCEPT ![tileID].second = removeFeature(@, tf[tileID][1])]
             ELSE struck,
         !.affectedTiles = Append(@, tileID)]

\* the pass that strikes the ID and leaves the feature in the layer
RemoveFromTileKeepFeature(st, annotationID, tileID) ==
    LET tf == st.annotations[annotationID].tileFeatures
        struck == [st.annotationTiles EXCEPT ![tileID].first = erase_if(@, annotationID)]
    IN  IF tileID \in DOMAIN tf
        THEN [st EXCEPT !.annotationTiles = struck,
                        !.affectedTiles = Append(@, tileID)]
        ELSE [st EXCEPT !.annotationTiles = struck]

RemoveFromTile(st, annotationID, tileID) ==
    LET tf == st.annotations[annotationID].tileFeatures
        struck == [st.annotationTiles EXCEPT ![tileID].first = erase_if(@, annotationID)]
    IN  IF tileID \in DOMAIN tf
        THEN [st EXCEPT
              !.annotationTiles =
                  [struck EXCEPT ![tileID].second = removeFeature(@, tf[tileID][1])],
              !.affectedTiles = Append(@, tileID)]
        ELSE [st EXCEPT !.annotationTiles = struck]

RECURSIVE RemoveFromTiles(_, _, _, _)
RemoveFromTiles(st, annotationID, order, k) ==
    IF k > Len(order) THEN st
    ELSE RemoveFromTiles(RemoveFromTile(st, annotationID, order[k]),
                         annotationID, order, k + 1)

\* the erase left out
EraseNothing(annos, annotationID) == annos

\* annotations.erase(annotationID)
EraseAnnotation(annos, annotationID) ==
    [a \in DOMAIN annos \ {annotationID} |-> annos[a]]

\* the body that also erases the tile entries left without annotations
RemoveOneDropEmpty(st, annotationID) ==
    IF annotationID \in DOMAIN st.annotations
    THEN LET order == TileOrder(DOMAIN st.annotationTiles)
             done == RemoveFromTiles(st, annotationID, order, 1)
             kept == {t \in DOMAIN done.annotationTiles :
                         done.annotationTiles[t].first # <<>>}
         IN  [done EXCEPT !.annotations = EraseAnnotation(@, annotationID),
                          !.annotationTiles = [t \in kept |-> @[t]]]
    ELSE st

\* the body of the loop over ids
RemoveOne(st, annotationID) ==
    IF annotationID \in DOMAIN st.annotations
    THEN LET order == TileOrder(DOMAIN st.annotationTiles)
             done == RemoveFromTiles(st, annotationID, order, 1)
         IN  [done EXCEPT !.annotations = EraseAnnotation(@, annotationID)]
    ELSE st

RECURSIVE RemoveAll(_, _)
RemoveAll(st, ids) ==
    IF ids = <<>> THEN st ELSE RemoveAll(RemoveOne(st, Head(ids)), Tail(ids))

removeAnnotations(annos, tiles, ids) ==
    RemoveAll([annotations |-> annos, annotationTiles |-> tiles,
               affectedTiles |-> <<>>], ids)

(***************************************************************************)
(* getAnnotationsInBounds: the tiles at zoom z inside the tile rectangle   *)
(* of the query box; strictly inside it every annotation of the tile is    *)
(* taken, on its border those whose bounds lie in the query box.           *)
(***************************************************************************)
InBounds(annoBounds, queryBounds) ==
    /\ annoBounds.sw.latitude >= queryBounds.sw.latitude
    /\ annoBounds.ne.latitude <= queryBounds.ne.latitude
    /\ annoBounds.sw.longitude >= queryBounds.sw.longitude
    /\ annoBounds.ne.longitude <= queryBounds.ne.longitude

nwTile(queryBounds, z) ==
    <<z, TileCoord(projectPoint(queryBounds.sw).x, Pow2(z)),
         TileCoord(projectPoint(queryBounds.ne).y, Pow2(z))>>

seTile(queryBounds, z) ==
    <<z, TileCoord(projectPoint(queryBounds.ne).x, Pow2(z)),
         TileCoord(projectPoint(queryBounds.sw).y, Pow2(z))>>

InTileRect(id, nw, se) ==
    id[2] >= nw[2] /\ id[2] <= se[2] /\ id[3] >= nw[3] /\ id[3] <= se[3]

\* the trivial accept taken for every tile of the rectangle
TrivialAcceptBorder(id, nw, se) ==
    id[2] >= nw[2] /\ id[2] <= se[2] /\ id[3] >= nw[3] /\ id[3] <= se[3]

TrivialAccept(id, nw, se) ==
    id[2] > nw[2] /\ id[2] < se[2] /\ id[3] > nw[3] /\ id[3] < se[3]

\* the tile tests made on the rows only
MatchingInTileRows(annos, tiles, id, queryBounds, z) ==
    LET nw == nwTile(queryBounds, z)
        se == seTile(queryBounds, z)
    IN  IF id[1] = z /\ id[3] >= nw[3] /\ id[3] <= se[3]
        THEN IF id[3] > nw[3] /\ id[3] < se[3]
             THEN tiles[id].first
             ELSE SelectSeq(tiles[id].first,
                            LAMBDA annotationID :
                                /\ annotationID \in DOMAIN annos
                                /\ InBounds(annos[annotationID].bounds, queryBounds))
        ELSE <<>>

MatchingInTile(annos, tiles, id, queryBounds, z) ==
    LET nw == nwTile(queryBounds, z)
        se == seTile(queryBounds, z)
    IN  IF id[1] = z /\ InTileRect(id, nw, se)
        THEN IF TrivialAccept(id, nw, se)
             THEN tiles[id].first
             ELSE SelectSeq(tiles[id].first,
                            LAMBDA annotationID :
                                /\ annotationID \in DOMAIN annos
                                /\ InBounds(annos[annotationID].bounds, queryBounds))
        ELSE <<>>

RECURSIVE Matching(_, _, _, _, _, _)
Matching(annos, tiles, order, k, queryBounds, z) ==
    IF k > Len(order) THEN <<>>
    ELSE MatchingInTile(annos, tiles, order[k], queryBounds, z)
         \o Matching(annos, tiles, order, k + 1, queryBounds, z)

getAnnotationsInBounds(annos, tiles, queryBounds, z) ==
    LET order == TileOrder(DOMAIN tiles)
    IN  Matching(annos, tiles, order, 1, queryBounds, z)

(***************************************************************************)
(* getBoundsForAnnotations, getTile                                        *)
(***************************************************************************)
\* the loop that stops at the first ID that is not in the table
RECURSIVE getBoundsUntilUnknown(_, _)
getBoundsUntilUnknown(annos, ids) ==
    IF ids = <<>> THEN EmptyBounds
    ELSE LET rest == getBoundsUntilUnknown(annos, SubSeq(ids, 1, Len(ids) - 1))
             id == ids[Len(ids)]
         IN  IF \A k \in DOMAIN ids : ids[k] \in DOMAIN annos
             THEN extend(rest, getPoint(annos[id])) ELSE rest

RECURSIVE getBoundsForAnnotations(_, _)
getBoundsForAnnotations(annos, ids) ==
    IF ids = <<>> THEN EmptyBounds
    ELSE LET rest == getBoundsForAnnotations(annos, SubSeq(ids, 1, Len(ids) - 1))
             id == ids[Len(ids)]
         IN  IF id \in DOMAIN annos THEN extend(rest, getPoint(annos[id])) ELSE rest

\* a lookup by operator[], which inserts an empty entry for a missing key
TilesAfterSubscript(tiles, id) ==
    IF id \in DOMAIN tiles THEN tiles
    ELSE (id :> [first |-> <<>>, second |-> <<>>]) @@ tiles

\* annotationTiles.find(id) inserts nothing: the table after the lookup
TilesAfterFind(tiles, id) == tiles

\* the LiveTile of the entry, or nullptr
getTile(tiles, id) ==
    IF id \in DOMAIN tiles THEN [found |-> TRUE, tile |-> tiles[id].second]
    ELSE [found |-> FALSE, tile |-> <<>>]

(***************************************************************************)
(* The inputs the calls are tried with.                                    *)
(***************************************************************************)
SeqsUpTo(S, n) == UNION {[1..k -> S] : k \in 0..n}

PointLists == SeqsUpTo(LatLngs, 2)
IDLists == SeqsUpTo(0..NoID, 2)
QueryBoxes == {b \in [sw : Corners, ne : Corners] :
                  /\ b.sw.latitude <= b.ne.latitude
                  /\ b.sw.longitude <= b.ne.longitude}
ZoomLevels == {0, MaxZoomBound}

(***************************************************************************)
(* State after construction: empty tables, counter 0, empty default symbol.*)
(***************************************************************************)
Init ==
    /\ nextID_ = 0
    /\ defaultPointAnnotationSymbol = ""
    /\ annotations = EmptyMap
    /\ annotationTiles = EmptyMap
    /\ maxZoom \in ZoomLevels
    /\ allocated = <<>>
    /\ last = [op |-> "init"]
    /\ mtx = Free
    /\ pc = [t \in Threads |-> "idle"]
    /\ call = [t \in Threads |-> NoCall]
    /\ snap = [t \in Threads |-> NoSnap]

Tables == [annotations |-> annotations, annotationTiles |-> annotationTiles]

(***************************************************************************)
(* The calls, each as one step: a call holds the mutex from entry to       *)
(* return.                                                                 *)
(***************************************************************************)
AddPointAnnotations(points, symbols) ==
    /\ Len(symbols) = Len(points)
    /\ nextID_ + Len(points) <= MaxID
    /\ LET r == addPointAnnotations(annotations, annotationTiles, nextID_,
                                    defaultPointAnnotationSymbol, maxZoom,
                                    points, symbols)
       IN  /\ annotations' = r.annotations
           /\ annotationTiles' = r.annotationTiles
           /\ nextID_' = r.nextID_
           /\ allocated' = allocated \o r.allocated
           /\ last' = [op |-> "add", points |-> points, symbols |-> symbols,
                       zoom |-> maxZoom,
                       default |-> defaultPointAnnotationSymbol,
                       counter |-> nextID_,
                       affectedTiles |-> r.affectedTiles,
                       annotationIDs |-> r.annotationIDs,
                       newIDs |-> r.allocated,
                       pre |-> Tables]
    /\ UNCHANGED <<defaultPointAnnotationSymbol, maxZoom, conc>>

RemoveAnnotations(ids) ==
    /\ LET r == removeAnnotations(annotations, annotationTiles, ids)
       IN  /\ annotations' = r.annotations
           /\ annotationTiles' = r.annotationTiles
           /\ last' = [op |-> "remove", ids |-> ids,
                       affectedTiles |-> r.affectedTiles,
                       pre |-> Tables,
                       undoes |-> IF last.op = "add" /\ last.annotationIDs = ids
                                  THEN <<[affectedTiles |-> last.affectedTiles,
                                          newIDs |-> last.newIDs,
                                          pre |-> last.pre]>>
                                  ELSE <<>>]
    /\ UNCHANGED <<nextID_, defaultPointAnnotationSymbol, maxZoom, allocated, conc>>

GetAnnotationsInBounds(queryBounds) ==
    /\ last' = [op |-> "query", queryBounds |-> queryBounds, zoom |-> maxZoom,
                result |-> getAnnotationsInBounds(annotations, annotationTiles,
                                                  queryBounds, maxZoom),
                pre |-> mgr]
    /\ UNCHANGED <<mgr, maxZoom, allocated, conc>>

\* the Map's zoom bound changes between calls
SetMaxZoom(z) ==
    /\ z # maxZoom
    /\ maxZoom' = z
    /\ UNCHANGED <<mgr, allocated, last, conc>>

Add == \E points \in PointLists :
           AddPointAnnotations(points, [i \in DOMAIN points |-> ""])
Remove == \E ids \in IDLists \cup (IF last.op = "add" THEN {last.annotationIDs} ELSE {}) :
              RemoveAnnotations(ids)
Query == \E queryBounds \in QueryBoxes : GetAnnotationsInBounds(queryBounds)
Zoom == \E z \in ZoomLevels : SetMaxZoom(z)

Next == Add \/ Remove \/ Zoom

Spec == Init /\ [][Next]_vars

NextQuery == Add \/ Remove \/ Zoom \/ Query

SpecQuery == Init /\ [][NextQuery]_vars

(***************************************************************************)
(* The other two read calls, and the manager with all three of them.       *)
(***************************************************************************)
GetTile(id) ==
    /\ annotationTiles' = TilesAfterFind(annotationTiles, id)
    /\ last' = [op |-> "getTile", id |-> id,
                result |-> getTile(annotationTiles, id),
                pre |-> mgr]
    /\ UNCHANGED <<nextID_, defaultPointAnnotationSymbol, annotations,
                   maxZoom, allocated, conc>>

GetBoundsForAnnotations(ids) ==
    /\ last' = [op |-> "bounds", ids |-> ids,
                result |-> getBoundsForAnnotations(annotations, ids),
                pre |-> mgr]
    /\ UNCHANGED <<mgr, maxZoom, allocated, conc>>

TileIDs == {<<0, 0, 0>>, <<1, 0, 0>>, <<1, 0, 1>>}

Tile == \E id \in TileIDs : GetTile(id)
Bounds == \E ids \in IDLists : GetBoundsForAnnotations(ids)

NextRead == Add \/ Remove \/ Tile \/ Bounds \/ Query

SpecRead == Init /\ [][NextRead]_vars

(***************************************************************************)
(* setDefaultPointAnnotationSymbol, and the manager with adds that name    *)
(* symbols.                                                                *)
(***************************************************************************)
SetDefaultPointAnnotationSymbol(symbol) ==
    /\ defaultPointAnnotationSymbol' = symbol
    /\ last' = [op |-> "setDefault", symbol |-> symbol, pre |-> mgr]
    /\ UNCHANGED <<nextID_, annotations, annotationTiles, maxZoom, allocated, conc>>

Symbols == {"", "pin"}
DefaultSymbols == {"marker", "dot"}

SetDefault == \E symbol \in DefaultSymbols : SetDefaultPointAnnotationSymbol(symbol)
AddSymbols == \E points \in PointLists : \E symbols \in [DOMAIN points -> Symbols] :
                  AddPointAnnotations(points, symbols)

RemoveSingle == \E id \in 0..NoID : RemoveAnnotations(<<id>>)

NextSymbol == AddSymbols \/ RemoveSingle \/ SetDefault

SpecSymbol == Init /\ [][NextSymbol]_vars

(***************************************************************************)
(* addPointAnnotations with symbols and points of different lengths.  The  *)
(* code compares no lengths.  The loop runs over points: a longer symbols  *)
(* is read up to Len(points) and the call completes.  With a shorter       *)
(* symbols the read of symbols[i] past its end is undefined: it yields     *)
(* some string, or the process dies at that read, after the ID of point i  *)
(* was allocated and its Annotation emplaced.                              *)
(***************************************************************************)
Garbage == {"", "junk"}

SymbolLists == SeqsUpTo(Symbols, 2)

Alive == last.op # "abort"

\* the state in which the read of symbols[i] kills the process
DiesAt(annos, tiles, counter, default, zoom, points, symbols, i) ==
    LET before == addPointAnnotations(annos, tiles, counter, default, zoom,
                                      SubSeq(points, 1, i - 1), symbols)
        n == nextID(before.nextID_)
    IN  [before EXCEPT !.annotations = EmplaceAnnotation(@, n.id, points[i]),
                       !.allocated = Append(@, n.id),
                       !.nextID_ = n.counter]

AddCompleted(points, symbols, read) ==
    LET r == addPointAnnotations(annotations, annotationTiles, nextID_,
                                 defaultPointAnnotationSymbol, maxZoom,
                                 points, read)
    IN  /\ annotations' = r.annotations
        /\ annotationTiles' = r.annotationTiles
        /\ nextID_' = r.nextID_
        /\ allocated' = allocated \o r.allocated
        /\ last' = [op |-> "add", points |-> points, symbols |-> symbols,
                    zoom |-> maxZoom,
                    default |-> defaultPointAnnotationSymbol,
                    counter |-> nextID_,
                    affectedTiles |-> r.affectedTiles,
                    annotationIDs |-> r.annotationIDs,
                    newIDs |-> r.allocated,
                    pre |-> Tables]

AddDied(points, symbols) ==
    LET r == DiesAt(annotations, annotationTiles, nextID_,
                    defaultPointAnnotationSymbol, maxZoom,
                    points, symbols, Len(symbols) + 1)
    IN  /\ annotations' = r.annotations
        /\ annotationTiles' = r.annotationTiles
        /\ nextID_' = r.nextID_
        /\ allocated' = allocated \o r.allocated
        /\ last' = [op |-> "abort", points |-> points, symbols |-> symbols,
                    counter |-> nextID_, pre |-> Tables]

AddPointAnnotationsUnchecked(points, symbols) ==
    /\ Alive
    /\ Len(symbols) # Len(points)
    /\ nextID_ + Len(points) <= MaxID
    /\ IF Len(symbols) > Len(points)
       THEN AddCompleted(points, symbols, symbols)
       ELSE \/ \E pad \in [1..(Len(points) - Len(symbols)) -> Garbage] :
                   AddCompleted(points, symbols, symbols \o pad)
            \/ AddDied(points, symbols)
    /\ UNCHANGED <<defaultPointAnnotationSymbol, maxZoom, conc>>

AddUnchecked == \E points \in PointLists : \E symbols \in SymbolLists :
                    AddPointAnnotationsUnchecked(points, symbols)
AddAlive == Alive /\ Add
RemoveAlive == Alive /\ Remove

NextUnchecked == AddAlive \/ RemoveAlive \/ AddUnchecked

SpecUnchecked == Init /\ [][NextUnchecked]_vars

(***************************************************************************)
(* The calls by threads.  A call waits for the mutex (the lock_guard at    *)
(* its entry), runs its body a loop pass at a time on the shared tables,   *)
(* and gives the mutex back when the lock_guard goes out of scope at its   *)
(* return.  call[t] holds the arguments and locals of the call of t,       *)
(* snap[t] the manager's state when t got the mutex.                       *)
(***************************************************************************)
\* IDs the calls in progress will still allocate
ToAllocate(t) == IF call[t].op = "add" THEN call[t].todo ELSE 0
ToAllocateAll == ToAllocate("t1") + ToAllocate("t2")

Enter(t, c) ==
    /\ pc[t] = "idle"
    /\ pc' = [pc EXCEPT ![t] = "wait"]
    /\ call' = [call EXCEPT ![t] = c]
    /\ UNCHANGED <<mgr, maxZoom, allocated, last, mtx, snap>>

CallAdd(t, points, symbols) ==
    /\ Len(symbols) = Len(points)
    /\ nextID_ + ToAllocateAll + Len(points) <= MaxID
    /\ Enter(t, [op |-> "add", points |-> points, symbols |-> symbols,
                 todo |-> Len(points), i |-> 1, at |-> "point",
                 annotationIDs |-> InitialIDs(Len(points)), affectedTiles |-> <<>>])

CallRemove(t, ids) ==
    Enter(t, [op |-> "remove", ids |-> ids, j |-> 1, at |-> "id",
              affectedTiles |-> <<>>])

CallQuery(t, queryBounds) == Enter(t, [op |-> "query", queryBounds |-> queryBounds])
CallGetBounds(t, ids) == Enter(t, [op |-> "bounds", ids |-> ids])
CallGetTile(t, id) == Enter(t, [op |-> "getTile", id |-> id])
CallSetDefault(t, symbol) == Enter(t, [op |-> "setDefault", symbol |-> symbol])

\* a lock that does not wait for the mutex
CanLockAlways(t) == TRUE

\* std::lock_guard<std::mutex> lock(mtx): the constructor returns once the
\* mutex is free, owning it
CanLock(t) == mtx = Free

Lock(t) ==
    /\ pc[t] = "wait"
    /\ CanLock(t)
    /\ mtx' = t
    /\ pc' = [pc EXCEPT ![t] = "body"]
    /\ snap' = [snap EXCEPT ![t] =
                   [at |-> "locked", annotations |-> annotations,
                    annotationTiles |-> annotationTiles, nextID_ |-> nextID_,
                    defaultPointAnnotationSymbol |-> defaultPointAnnotationSymbol]]
    /\ UNCHANGED <<mgr, maxZoom, allocated, last, call>>

\* the mutex kept on the early return of getTile
ReleasedIfFound(t) ==
    IF call[t].op = "getTile" /\ ~call[t].result.found THEN t ELSE Free

\* the owner of the mutex after the lock_guard of t is destroyed
Released(t) == Free

Unlock(t) ==
    /\ pc[t] = "return"
    /\ mtx' = Released(t)
    /\ pc' = [pc EXCEPT ![t] = "idle"]
    /\ call' = [call EXCEPT ![t] = NoCall]
    /\ snap' = [snap EXCEPT ![t] = NoSnap]
    /\ UNCHANGED <<mgr, maxZoom, allocated, last>>

Running(t, op) == pc[t] = "body" /\ call[t].op = op

\* addPointAnnotations, the head of the loop over points: leave the loop, or
\* allocate the ID, emplace the annotation and set up the zoom loop
AddPointStep(t) ==
    /\ Running(t, "add") /\ call[t].at = "point"
    /\ LET c == call[t]
       IN  IF c.i > Len(c.points)
           THEN /\ pc' = [pc EXCEPT ![t] = "return"]
                /\ UNCHANGED <<mgr, allocated, call>>
           ELSE LET n == nextID(nextID_)
                    z2 == Pow2(maxZoom)
                    p == projectPoint(c.points[c.i])
                IN  /\ nextID_' = n.counter
                    /\ allocated' = Append(allocated, n.id)
                    /\ annotations' = EmplaceAnnotation(annotations, n.id, c.points[c.i])
                    /\ call' = [call EXCEPT ![t] =
                          [op |-> "add", points |-> c.points, symbols |-> c.symbols,
                           todo |-> c.todo - 1, i |-> c.i, at |-> "zoom",
                           annotationIDs |-> c.annotationIDs,
                           affectedTiles |-> c.affectedTiles,
                           annotationID |-> n.id, p |-> p, z |-> maxZoom, z2 |-> z2,
                           x |-> TileCoord(p.x, z2), y |-> TileCoord(p.y, z2)]]
                    /\ UNCHANGED <<pc, annotationTiles, defaultPointAnnotationSymbol>>
    /\ UNCHANGED <<maxZoom, last, mtx, snap>>

\* one pass of the zoom loop, or its end and the push_back of the ID
AddZoomStep(t) ==
    /\ Running(t, "add") /\ call[t].at = "zoom"
    /\ LET c == call[t]
       IN  IF c.z < 0
           THEN /\ call' = [call EXCEPT ![t] =
                       [op |-> "add", points |-> c.points, symbols |-> c.symbols,
                        todo |-> c.todo, i |-> c.i + 1, at |-> "point",
                        annotationIDs |-> Append(c.annotationIDs, c.annotationID),
                        affectedTiles |-> c.affectedTiles]]
                /\ UNCHANGED <<annotations, annotationTiles>>
           ELSE LET st == AddLevel([annotations |-> annotations,
                                    annotationTiles |-> annotationTiles,
                                    affectedTiles |-> c.affectedTiles],
                                   c.annotationID, c.p,
                                   Sprite(c.symbols[c.i], defaultPointAnnotationSymbol),
                                   c.z, c.z2, c.x, c.y)
                IN  /\ annotations' = st.annotations
                    /\ annotationTiles' = st.annotationTiles
                    /\ call' = [call EXCEPT ![t].affectedTiles = st.affectedTiles,
                                            ![t].z = c.z - 1,
                                            ![t].z2 = c.z2 \div 2,
                                            ![t].x = c.x \div 2,
                                            ![t].y = c.y \div 2]
    /\ UNCHANGED <<nextID_, defaultPointAnnotationSymbol, maxZoom, allocated, last,
                   mtx, pc, snap>>

\* removeAnnotations, the head of the loop over ids: leave the loop, skip an ID
\* that is not found, or start the loop over the tiles
RemoveIDStep(t) ==
    /\ Running(t, "remove") /\ call[t].at = "id"
    /\ LET c == call[t]
       IN  IF c.j > Len(c.ids)
           THEN /\ pc' = [pc EXCEPT ![t] = "return"]
                /\ UNCHANGED call
           ELSE /\ UNCHANGED pc
                /\ IF c.ids[c.j] \in DOMAIN annotations
                   THEN call' = [call EXCEPT ![t] =
                            [op |-> "remove", ids |-> c.ids, j |-> c.j, at |-> "tiles",
                             affectedTiles |-> c.affectedTiles,
                             order |-> TileOrder(DOMAIN annotationTiles), k |-> 1]]
                   ELSE call' = [call EXCEPT ![t].j = c.j + 1]
    /\ UNCHANGED <<mgr, maxZoom, allocated, last, mtx, snap>>

\* one pass of the loop over the tiles, or its end and the erase
RemoveTileStep(t) ==
    /\ Running(t, "remove") /\ call[t].at = "tiles"
    /\ LET c == call[t]
           annotationID == c.ids[c.j]
       IN  IF c.k > Len(c.order)
           THEN /\ annotations' = EraseAnnotation(annotations, annotationID)
                /\ call' = [call EXCEPT ![t] =
                       [op |-> "remove", ids |-> c.ids, j |-> c.j + 1, at |-> "id",
                        affectedTiles |-> c.affectedTiles]]
                /\ UNCHANGED annotationTiles
           ELSE LET st == RemoveFromTile([annotations |-> annotations,
                                          annotationTiles |-> annotationTiles,
                                          affectedTiles |-> c.affectedTiles],
                                         annotationID, c.order[c.k])
                IN  /\ annotationTiles' = st.annotationTiles
                    /\ call' = [call EXCEPT ![t].affectedTiles = st.affectedTiles,
                                            ![t].k = c.k + 1]
                    /\ UNCHANGED annotations
    /\ UNCHANGED <<nextID_, defaultPointAnnotationSymbol, maxZoom, allocated, last,
                   mtx, pc, snap>>

\* the bodies without a loop over the tables' updates
Finish(t, result) ==
    /\ pc' = [pc EXCEPT ![t] = "return"]
    /\ call' = [call EXCEPT ![t] = [op |-> call[t].op, in |-> call[t], result |-> result]]

QueryStep(t) ==
    /\ Running(t, "query") /\ "queryBounds" \in DOMAIN call[t]
    /\ Finish(t, getAnnotationsInBounds(annotations, annotationTiles,
                                        call[t].queryBounds, maxZoom))
    /\ UNCHANGED <<mgr, maxZoom, allocated, last, mtx, snap>>

GetBoundsStep(t) ==
    /\ Running(t, "bounds") /\ "ids" \in DOMAIN call[t]
    /\ Finish(t, getBoundsForAnnotations(annotations, call[t].ids))
    /\ UNCHANGED <<mgr, maxZoom, allocated, last, mtx, snap>>

\* both exits of getTile: the tile's content, or nullptr
GetTileStep(t) ==
    /\ Running(t, "getTile") /\ "id" \in DOMAIN call[t]
    /\ Finish(t, getTile(annotationTiles, call[t].id))
    /\ UNCHANGED <<mgr, maxZoom, allocated, last, mtx, snap>>

SetDefaultStep(t) ==
    /\ Running(t, "setDefault") /\ "symbol" \in DOMAIN call[t]
    /\ defaultPointAnnotationSymbol' = call[t].symbol
    /\ Finish(t, None)
    /\ UNCHANGED <<nextID_, annotations, annotationTiles, maxZoom, allocated, last,
                   mtx, snap>>

ThreadPoints == {<<LatLng(0, 0)>>, <<LatLng(2, -3), LatLng(0, 0)>>}
ThreadIDs == {<<0>>, <<1, 0>>, <<NoID>>}
ThreadBoxes == {[sw |-> LatLng(-1, -1), ne |-> LatLng(3, 3)]}
ThreadTiles == {<<0, 0, 0>>, <<1, 0, 1>>}

Call(t) ==
    \/ \E points \in ThreadPoints : CallAdd(t, points, [i \in DOMAIN points |-> ""])
    \/ \E ids \in ThreadIDs : CallRemove(t, ids)
    \/ \E queryBounds \in ThreadBoxes : CallQuery(t, queryBounds)
    \/ \E ids \in ThreadIDs : CallGetBounds(t, ids)
    \/ \E id \in ThreadTiles : CallGetTile(t, id)
    \/ CallSetDefault(t, "marker")

Step(t) ==
    \/ AddPointStep(t) \/ AddZoomStep(t)
    \/ RemoveIDStep(t) \/ RemoveTileStep(t)
    \/ QueryStep(t) \/ GetBoundsStep(t) \/ GetTileStep(t) \/ SetDefaultStep(t)

NextConc == \E t \in Threads : Call(t) \/ Lock(t) \/ Step(t) \/ Unlock(t)

SpecConc == Init /\ [][NextConc]_vars

\* The same threads with one input per exit of each call.  A thread that can
\* run does; a thread waiting for the mutex gets it if it is free again and
\* again.
CallFew(t) ==
    \/ CallAdd(t, <<LatLng(0, 0)>>, <<"">>)
    \/ \E ids \in {<<0>>, <<NoID>>} : CallRemove(t, ids)
    \/ CallQuery(t, [sw |-> LatLng(-1, -1), ne |-> LatLng(3, 3)])
    \/ CallGetBounds(t, <<0>>)
    \/ \E id \in ThreadTiles : CallGetTile(t, id)
    \/ CallSetDefault(t, "marker")

NextFair == \E t \in Threads : CallFew(t) \/ Lock(t) \/ Step(t) \/ Unlock(t)

FairSpec ==
    /\ Init /\ [][NextFair]_vars
    /\ \A t \in Threads : WF_vars(Step(t) \/ Unlock(t))
    /\ \A t \in Threads : SF_vars(Lock(t))

(***************************************************************************)
(* Properties.  They read the record of the last call: its inputs and      *)
(* results, and for add and remove the tables before the call (pre).       *)
(***************************************************************************)
Count(seq, e) == Cardinality({k \in DOMAIN seq : seq[k] = e})

Parent(t) == <<t[1] - 1, t[2] \div 2, t[3] \div 2>>

\* C1: addPointAnnotations on N points returns exactly N IDs, the i-th being the
\* ID freshly allocated for points[i].
C1_ReturnedIDs ==
    last.op = "add" =>
        /\ Len(last.annotationIDs) = Len(last.points)
        /\ last.annotationIDs = last.newIDs

\* C2: add, then remove of all the IDs the add returned, leaves the annotation
\* table as it was before the add, reports the same set of tiles as the add, and
\* leaves what the tiles held before the add in place.
C2_RoundTrip ==
    (last.op = "remove" /\ last.undoes # <<>>) =>
        LET added == last.undoes[1]
        IN  /\ annotations = added.pre.annotations
            /\ Range(last.affectedTiles) = Range(added.affectedTiles)
            /\ \A t \in DOMAIN added.pre.annotationTiles :
                   annotationTiles[t] = added.pre.annotationTiles[t]

\* C5: removeAnnotations with IDs that were never allocated, were removed before,
\* or occur a second time in ids: those IDs report no tile and change nothing;
\* only the live IDs of ids, each once, are removed and report their tiles.
C5_IdempotentRemoval ==
    last.op = "remove" =>
        LET before == last.pre.annotations
            liveIDs == Range(last.ids) \cap DOMAIN before
        IN  /\ DOMAIN annotations = DOMAIN before \ liveIDs
            /\ \A a \in DOMAIN annotations : annotations[a] = before[a]
            /\ \A t \in DOMAIN annotationTiles :
                   Count(last.affectedTiles, t) =
                       Cardinality({a \in liveIDs : t \in DOMAIN before[a].tileFeatures})
            /\ liveIDs = {} =>
                   /\ last.affectedTiles = <<>>
                   /\ annotationTiles = last.pre.annotationTiles

C5_Witness ==
    /\ last.op = "remove"
    /\ DOMAIN last.pre.annotations # {}
    /\ \E j \in DOMAIN last.ids :
           /\ last.ids[j] \in Range(allocated)
           /\ last.ids[j] \notin DOMAIN last.pre.annotations

\* C6: every tile an add produces at a zoom z >= 1 is followed by the tile it
\* produces at zoom z-1, which is its parent (z-1, floor(x/2), floor(y/2)).
C6_FanOutParent ==
    last.op = "add" =>
        \A j \in DOMAIN last.affectedTiles :
            last.affectedTiles[j][1] >= 1 =>
                /\ j < Len(last.affectedTiles)
                /\ last.affectedTiles[j + 1] = Parent(last.affectedTiles[j])

C6_Witness ==
    /\ last.op = "add"
    /\ last.zoom >= 2
    /\ \E j \in DOMAIN last.affectedTiles :
           /\ last.affectedTiles[j][1] >= 1
           /\ last.affectedTiles[j][2] % 2 = 1

\* C7: a tile is in the result of removeAnnotations exactly when the call struck
\* an ID from its contributing list and removed a feature from its layer.
C7_AffectedAreChanged ==
    last.op = "remove" =>
        LET before == last.pre.annotationTiles
        IN  /\ DOMAIN annotationTiles = DOMAIN before
            /\ Range(last.affectedTiles) =
                   {t \in DOMAIN before : annotationTiles[t] # before[t]}
            /\ \A t \in Range(last.affectedTiles) :
                   /\ Len(annotationTiles[t].first) < Len(before[t].first)
                   /\ Len(annotationTiles[t].second) < Len(before[t].second)

C7_Witness ==
    /\ last.op = "remove"
    /\ last.affectedTiles # <<>>
    /\ \E t \in DOMAIN annotationTiles :
           t \notin Range(last.affectedTiles) /\ annotationTiles[t].first # <<>>

\* C10: every ID nextID() hands out is greater than every ID handed out before,
\* so no ID is assigned twice, also after its annotation was removed.
C10_IDsNeverReused ==
    \A i, j \in DOMAIN allocated : i < j => allocated[i] < allocated[j]

C10_Witness ==
    /\ last.op = "add"
    /\ last.newIDs # <<>>
    /\ \E a \in Range(allocated) :
           a \notin Range(last.newIDs) /\ a \notin DOMAIN last.pre.annotations

\* C3: every ID getAnnotationsInBounds returns names a live annotation whose
\* bounds lie inside the query box, whichever branch took it.
C3_ResultInsideBox ==
    last.op = "query" =>
        \A id \in Range(last.result) :
            /\ id \in DOMAIN annotations
            /\ InBounds(annotations[id].bounds, last.queryBounds)

C3_Witness ==
    /\ last.op = "query"
    /\ \E t \in DOMAIN annotationTiles :
           /\ t[1] = last.zoom
           /\ TrivialAccept(t, nwTile(last.queryBounds, last.zoom),
                            seTile(last.queryBounds, last.zoom))
           /\ annotationTiles[t].first # <<>>
           /\ Range(annotationTiles[t].first) \subseteq Range(last.result)

\* C4: getAnnotationsInBounds returns every live annotation whose point lies
\* inside the query box, also when the zoom bound changed since the add.
C4_ResultComplete ==
    last.op = "query" =>
        \A a \in DOMAIN annotations :
            InBounds(annotations[a].bounds, last.queryBounds) =>
                a \in Range(last.result)

(***************************************************************************)
(* The tables between calls: every live annotation is fanned out to every  *)
(* zoom level, and the tiles list exactly the annotations that have a      *)
(* feature in them.                                                        *)
(***************************************************************************)
Complete(annos, tiles, zoom) ==
    /\ \A a \in DOMAIN annos :
           /\ {t[1] : t \in DOMAIN annos[a].tileFeatures} = 0..zoom
           /\ \A t \in DOMAIN annos[a].tileFeatures :
                  t \in DOMAIN tiles /\ Count(tiles[t].first, a) = 1
    /\ \A t \in DOMAIN tiles :
           \A a \in Range(tiles[t].first) :
               a \in DOMAIN annos /\ t \in DOMAIN annos[a].tileFeatures

\* what the call of t leaves is what the whole call, run alone on the state it
\* found when it got the mutex, leaves
SerialOutcome(t) ==
    LET c == call[t]
        s == snap[t]
        same == /\ annotations = s.annotations
                /\ annotationTiles = s.annotationTiles
                /\ nextID_ = s.nextID_
    IN  CASE c.op = "add" ->
                LET r == addPointAnnotations(s.annotations, s.annotationTiles, s.nextID_,
                                             s.defaultPointAnnotationSymbol, maxZoom,
                                             c.points, c.symbols)
                IN  /\ annotations = r.annotations
                    /\ annotationTiles = r.annotationTiles
                    /\ nextID_ = r.nextID_
                    /\ c.affectedTiles = r.affectedTiles
                    /\ c.annotationIDs = r.annotationIDs
          [] c.op = "remove" ->
                LET r == removeAnnotations(s.annotations, s.annotationTiles, c.ids)
                IN  /\ annotations = r.annotations
                    /\ annotationTiles = r.annotationTiles
                    /\ nextID_ = s.nextID_
                    /\ c.affectedTiles = r.affectedTiles
          [] c.op = "query" ->
                /\ same
                /\ c.result = getAnnotationsInBounds(s.annotations, s.annotationTiles,
                                                     c.in.queryBounds, maxZoom)
          [] c.op = "bounds" ->
                same /\ c.result = getBoundsForAnnotations(s.annotations, c.in.ids)
          [] c.op = "getTile" ->
                same /\ c.result = getTile(s.annotationTiles, c.in.id)
          [] c.op = "setDefault" ->
                same /\ defaultPointAnnotationSymbol = c.in.symbol

\* C8: with calls by several threads, a call runs its body only while it owns the
\* mutex, the tables are complete whenever the mutex is free (the state a call
\* finds), and every call leaves what it leaves when run alone on the state it
\* found: the outcome is that of the calls in the order they got the mutex.
C8_Serializable ==
    /\ \A t \in Threads : pc[t] \in {"body", "return"} => mtx = t
    /\ mtx = Free => Complete(annotations, annotationTiles, maxZoom)
    /\ \A t \in Threads : pc[t] = "return" => SerialOutcome(t)

C8_Witness ==
    \E t, u \in Threads :
        /\ pc[t] = "body" /\ pc[u] = "wait"
        /\ call[u].op = "query"
        /\ ~Complete(annotations, annotationTiles, maxZoom)

\* C9: a thread that owns the mutex gives it back, whatever exit its call takes,
\* and under fair scheduling a thread waiting for the mutex gets it.
C9_LockReleased ==
    \A t \in Threads :
        /\ (mtx = t) ~> (mtx = Free)
        /\ (pc[t] = "wait") ~> (pc[t] = "body")

C9_Witness ==
    \E t, u \in Threads :
        /\ pc[u] = "wait"
        /\ pc[t] = "return" /\ mtx = t
        /\ call[t].op = "getTile" /\ ~call[t].result.found

(***************************************************************************)
(* C11: every tile a live annotation has a feature under is an entry of    *)
(* the tile store, and the layer of that entry holds the feature.          *)
(***************************************************************************)
C11_TileFeaturesInStore ==
    \A a \in DOMAIN annotations :
        \A t \in DOMAIN annotations[a].tileFeatures :
            /\ t \in DOMAIN annotationTiles
            /\ annotations[a].tileFeatures[t][1] \in Range(annotationTiles[t].second)

\* after a removal: a live annotation with a feature in a tile of its own,
\* next to a tile that has lost all its annotations
C11_Witness ==
    /\ last.op = "remove"
    /\ last.affectedTiles # <<>>
    /\ \E a \in DOMAIN annotations :
           \E t \in DOMAIN annotations[a].tileFeatures :
               /\ t[1] > 0
               /\ Len(annotationTiles[t].second) = 1
    /\ \E t \in DOMAIN annotationTiles : annotationTiles[t].first = <<>>

(***************************************************************************)
(* C12: a call of addPointAnnotations whose symbols and points differ in   *)
(* length aborts, and has allocated no ID, created no annotation and       *)
(* inserted no feature.                                                    *)
(***************************************************************************)
C12_FailsFast ==
    (last.op \in {"add", "abort"} /\ Len(last.symbols) # Len(last.points))
        => /\ last.op = "abort"
           /\ nextID_ = last.counter
           /\ Tables = last.pre

(***************************************************************************)
(* C13: a tile entry, once there, stays: every step keeps getTile(t)       *)
(* returning content for each tile it returned content for before, also a  *)
(* step that removes the last annotation of the tile; entries appear only  *)
(* in an add that touches their coordinate, so getTile(t) is absent for a  *)
(* tile no add touched; and a getTile call returns what the store holds.   *)
(***************************************************************************)
C13_TilesStay ==
    [][/\ \A t \in DOMAIN annotationTiles :
              /\ getTile(annotationTiles, t).found
              /\ getTile(annotationTiles', t).found
       /\ \A t \in (DOMAIN annotationTiles' \cup TileIDs) \ DOMAIN annotationTiles :
              getTile(annotationTiles', t).found
                  => last'.op = "add" /\ t \in Range(last'.affectedTiles)
       /\ last'.op = "getTile"
              => last'.result = getTile(annotationTiles', last'.id)]_vars

\* getTile returns the empty content of a tile all of whose annotations
\* have been removed
C13_Witness ==
    /\ last.op = "getTile"
    /\ last.result.found
    /\ last.result.tile = <<>>
    /\ annotationTiles[last.id].first = <<>>
    /\ allocated # <<>>

(***************************************************************************)
(* C14: after getTile, getAnnotationsInBounds or getBoundsForAnnotations   *)
(* the counter, the default symbol, the annotation table and the tile      *)
(* store are what they were before the call.                               *)
(***************************************************************************)
C14_ReadsChangeNothing ==
    last.op \in {"getTile", "query", "bounds"} => mgr = last.pre

\* a lookup of a tile that is not in the store, with annotations in it
C14_Witness ==
    /\ last.op = "getTile"
    /\ ~last.result.found
    /\ DOMAIN annotations # {}
    /\ last.id \notin DOMAIN annotationTiles

(***************************************************************************)
(* C15: setDefaultPointAnnotationSymbol sets the fallback symbol and       *)
(* leaves the counter, the annotation table and the tile store as they     *)
(* were; an add leaves the features that were in the tiles as they were,   *)
(* and each feature it creates for points[i] carries symbols[i] when that  *)
(* is not empty and else the default symbol of the time of the add.        *)
(***************************************************************************)
C15_DefaultSymbolOnly ==
    /\ last.op = "setDefault"
           => /\ defaultPointAnnotationSymbol = last.symbol
              /\ nextID_ = last.pre[1]
              /\ annotations = last.pre[3]
              /\ annotationTiles = last.pre[4]
    /\ (last.op = "add" /\ Len(last.symbols) = Len(last.points))
           => /\ \A t \in DOMAIN last.pre.annotationTiles :
                     SubSeq(annotationTiles[t].second, 1,
                            Len(last.pre.annotationTiles[t].second))
                         = last.pre.annotationTiles[t].second
              /\ \A i \in DOMAIN last.newIDs :
                     LET expected == IF last.symbols[i] # "" THEN last.symbols[i]
                                     ELSE last.default
                     IN  /\ \A t \in DOMAIN annotationTiles :
                                \A k \in DOMAIN annotationTiles[t].second :
                                    annotationTiles[t].second[k].owner = last.newIDs[i]
                                        => annotationTiles[t].second[k].sprite = expected
                         /\ \A t \in DOMAIN annotations[last.newIDs[i]].tileFeatures :
                                annotations[last.newIDs[i]].tileFeatures[t][1].sprite
                                    = expected

\* an add without a symbol under a default that was changed after an
\* earlier add: the tile holds the old feature with the old default and the
\* new one with the new default
C15_Witness ==
    /\ last.op = "add"
    /\ last.symbols = <<"">>
    /\ last.default = "dot"
    /\ defaultPointAnnotationSymbol = "dot"
    /\ \E t \in DOMAIN annotationTiles :
           \E j, k \in DOMAIN annotationTiles[t].second :
               /\ annotationTiles[t].second[j].sprite = "marker"
               /\ annotationTiles[t].second[k].sprite = "dot"
               /\ annotationTiles[t].second[k].owner = last.newIDs[1]

(***************************************************************************)
(* C16: getBoundsForAnnotations(ids) is the envelope of the points of the  *)
(* live annotations named in ids, smallest and largest latitude and        *)
(* longitude; IDs that name no live annotation add nothing, and with no    *)
(* live annotation named the result is the default box.                    *)
(***************************************************************************)
C16_BoundsEnvelope ==
    last.op = "bounds"
        => LET live == Range(last.ids) \cap DOMAIN annotations
               pts == {annotations[id].geometry[1][1] : id \in live}
           IN  IF live = {} THEN last.result = EmptyBounds
               ELSE /\ \E p \in pts : last.result.sw.latitude = p.latitude
                    /\ \E p \in pts : last.result.sw.longitude = p.longitude
                    /\ \E p \in pts : last.result.ne.latitude = p.latitude
                    /\ \E p \in pts : last.result.ne.longitude = p.longitude
                    /\ \A p \in pts :
                           /\ last.result.sw.latitude <= p.latitude
                           /\ last.result.sw.longitude <= p.longitude
                           /\ last.result.ne.latitude >= p.latitude
                           /\ last.result.ne.longitude >= p.longitude

\* a removed ID followed by a live one: the box is the point of the live one
C16_Witness ==
    /\ last.op = "bounds"
    /\ Len(last.ids) = 2
    /\ last.ids[1] \in Range(allocated) \ DOMAIN annotations
    /\ last.ids[2] \in DOMAIN annotations
    /\ last.result.sw = annotations[last.ids[2]].geometry[1][1]
    /\ last.result.ne = last.result.sw

(***************************************************************************)
(* C17: an annotation returned by getAnnotationsInBounds(B, z) is live and *)
(* its point lies in a tile of the rectangle of tiles at zoom z between    *)
(* the tiles of B's corners; one that is returned although its bounds are  *)
(* not inside B lies in a tile strictly inside that rectangle, in x and y. *)
(***************************************************************************)
C17_ResultInTileRect ==
    last.op = "query"
        => LET B == last.queryBounds
               s == 2 ^ last.zoom
               west == ((B.sw.longitude + H) * s) \div G
               east == ((B.ne.longitude + H) * s) \div G
               north == ((H - B.ne.latitude) * s) \div G
               south == ((H - B.sw.latitude) * s) \div G
           IN  \A id \in Range(last.result) :
                   /\ id \in DOMAIN annotations
                   /\ LET pt == annotations[id].geometry[1][1]
                          tx == ((pt.longitude + H) * s) \div G
                          ty == ((H - pt.latitude) * s) \div G
                      IN  /\ west <= tx /\ tx <= east
                          /\ north <= ty /\ ty <= south
                          /\ ~InBounds(annotations[id].bounds, B)
                                 => /\ west < tx /\ tx < east
                                    /\ north < ty /\ ty < south

\* a query above zoom 0 returns an annotation of a tile strictly inside the
\* tile rectangle and none of a tile outside it, while another annotation is
\* live
C17_Witness ==
    /\ last.op = "query"
    /\ last.zoom > 0
    /\ Cardinality(DOMAIN annotations) > Cardinality(Range(last.result))
    /\ \E id \in Range(last.result) :
           LET B == last.queryBounds
               s == 2 ^ last.zoom
               pt == annotations[id].geometry[1][1]
               tx == ((pt.longitude + H) * s) \div G
               ty == ((H - pt.latitude) * s) \div G
           IN  /\ ((B.sw.longitude + H) * s) \div G < tx
               /\ tx < ((B.ne.longitude + H) * s) \div G
               /\ ((H - B.ne.latitude) * s) \div G < ty
               /\ ty < ((H - B.sw.latitude) * s) \div G

(***************************************************************************)
(* C18: the affected tiles of an add of N points under zoom bound Z are    *)
(* N * (Z + 1) entries: for the i-th point the tiles of zoom Z, Z - 1, ... *)
(* 0 in that order, the one of zoom z being (z, floor(x * 2^z),            *)
(* floor(y * 2^z)) for the projected point (x, y).                         *)
(***************************************************************************)
C18_AffectedTilesOfAdd ==
    (last.op = "add" /\ Len(last.symbols) = Len(last.points))
        => LET N == Len(last.points)
               Z == last.zoom
           IN  /\ Len(last.affectedTiles) = N * (Z + 1)
               /\ \A i \in 1..N : \A k \in 0..Z :
                      LET z == Z - k
                          pt == last.points[i]
                      IN  last.affectedTiles[(i - 1) * (Z + 1) + k + 1]
                              = <<z, ((pt.longitude + H) * 2 ^ z) \div G,
                                     ((H - pt.latitude) * 2 ^ z) \div G>>

\* an add of two points above zoom 0 whose tiles differ at the top zoom
C18_Witness ==
    /\ last.op = "add"
    /\ Len(last.points) = 2
    /\ last.zoom = MaxZoomBound
    /\ Len(last.affectedTiles) = 2 * (MaxZoomBound + 1)
    /\ last.affectedTiles[1] # last.affectedTiles[MaxZoomBound + 2]
    /\ last.affectedTiles[MaxZoomBound + 1] = <<0, 0, 0>>

(***************************************************************************)
(* C19: the tiles returned by removeAnnotations are a set: no tile occurs  *)
(* in the result more than once.                                           *)
(***************************************************************************)
C19_RemoveResultIsSet ==
    last.op = "remove"
        => \A t \in Range(last.affectedTiles) : Count(last.affectedTiles, t) = 1

(***************************************************************************)
(* C20: the annotation table and the tile store agree.  An ID is in the    *)
(* list of a tile exactly when it names a live annotation that has the     *)
(* tile as a key of its tileFeatures; it is in the list once; and the      *)
(* layer of the tile has as many features as the list has IDs, one of each *)
(* listed annotation.                                                      *)
(***************************************************************************)
C20_TablesAgree ==
    /\ \A a \in DOMAIN annotations :
           DOMAIN annotations[a].tileFeatures \subseteq DOMAIN annotationTiles
    /\ \A t \in DOMAIN annotationTiles :
           LET ids == annotationTiles[t].first
               layer == annotationTiles[t].second
           IN  /\ \A id \in Range(ids) \cup DOMAIN annotations :
                      id \in Range(ids)
                          <=> /\ id \in DOMAIN annotations
                              /\ t \in DOMAIN annotations[id].tileFeatures
               /\ \A id \in Range(ids) : Count(ids, id) = 1
               /\ Len(layer) = Len(ids)
               /\ \A id \in Range(ids) :
                      Cardinality({k \in DOMAIN layer : layer[k].owner = id}) = 1

\* a removal took one annotation out of a tile that another one stays in
C20_Witness ==
    /\ last.op = "remove"
    /\ \E t \in Range(last.affectedTiles) :
           /\ Len(annotationTiles[t].first) = 1
           /\ Len(annotationTiles[t].second) = 1
           /\ Len(last.pre.annotationTiles[t].first) = 2
    /\ Cardinality(DOMAIN annotations) = 1

====
